---- MODULE Spec2Model ----
(***************************************************************************)
(* Model of SimEx/Parameters/PlasmaXRTSCalculatorParameters.py (Python 2). *)
(* The loading of snapshots by SimEx/Analysis/XMDYNPhotonMatterAnalysis.py *)
(* is modelled in a section of its own, with the variable analysis.        *)
(*                                                                         *)
(* Python values are tagged records:                                       *)
(*   None                 [t |-> "None"]                                   *)
(*   float  n/d * NA6^k   [t |-> "float", n, d, k]   (d > 0, lowest terms) *)
(*   int                  [t |-> "int", v]                                 *)
(*   str                  [t |-> "str", s]                                 *)
(*   list                 [t |-> "list", items]                            *)
(*   dict                 [t |-> "dict", keys, val]                        *)
(* NA6 stands for the factor Avogadro*1e6 of the triple relation; it is    *)
(* kept symbolic as the exponent k, every other factor is an exact         *)
(* rational.  All rationals of the model lie well inside (1/NA6, NA6), so  *)
(* a value with a larger exponent dominates one with a smaller exponent.   *)
(* A validator returns Ok(value) or Raise(exception class, error kind of   *)
(* the specification's taxonomy, raising function).                        *)
(*                                                                         *)
(* The class statement has no base class.  Under Python 2 that makes the   *)
(* class a classic class: an assignment obj.<field> = value binds the name *)
(* in the instance, which from then on hides the property, and the setter  *)
(* is not called.  The setters are written for a new-style class, where    *)
(* the assignment calls them.  The model follows an object of either kind: *)
(* classic tells which one it is.                                          *)
(***************************************************************************)
EXTENDS Integers, Sequences, FiniteSets, TLC

VARIABLES self, constructed, err, last, nwrites, classic, tmp_dir, input_deck,
          analysis

vars == <<self, constructed, err, last, nwrites, classic, tmp_dir, input_deck,
         analysis>>

-----------------------------------------------------------------------------
(* Bounds of the model. *)

\* number of keyword arguments that differ from the reference call
MaxDeviations == 2
\* longest elements list passed to the constructor
MaxElems == 2
\* number of accessor writes after a construction
MaxWrites == 2

\* the most snapshots a trajectory file holds
MaxSnapshots == 2

-----------------------------------------------------------------------------
(* Python values. *)

None == [t |-> "None"]
PyInt(v) == [t |-> "int", v |-> v]
PyStr(s) == [t |-> "str", s |-> s]
PyList(items) == [t |-> "list", items |-> items]

RECURSIVE GCD(_, _)
GCD(a, b) == IF b = 0 THEN a ELSE GCD(b, a % b)

Abs(x) == IF x < 0 THEN -x ELSE x

\* the float n/d * NA6^k in lowest terms with a positive denominator
Flt(n, d, k) ==
    LET g == GCD(Abs(n), Abs(d))
        s == IF d < 0 THEN -1 ELSE 1
    IN  [t |-> "float", n |-> s * (n \div g), d |-> s * (d \div g),
         k |-> IF n = 0 THEN 0 ELSE k]

F(n, d) == Flt(n, d, 0)

\* an exception raised inside an arithmetic expression
Exc(exc) == [t |-> "exc", exc |-> exc]

IsNone(v) == v.t = "None"
IsNum(v) == v.t \in {"int", "float"}
IsExc(v) == v.t = "exc"

\* a number as a float (int * float and int / float give a float)
AsFloat(v) == IF v.t = "int" THEN F(v.v, 1) ELSE v

Sgn(v) == LET x == AsFloat(v) IN IF x.n > 0 THEN 1 ELSE IF x.n < 0 THEN -1 ELSE 0

\* a * b of Python, one operand a float
PyMul(a, b) ==
    IF IsExc(a) THEN a
    ELSE IF IsExc(b) THEN b
    ELSE IF ~(IsNum(a) /\ IsNum(b)) THEN Exc("TypeError")
    ELSE LET x == AsFloat(a)
             y == AsFloat(b)
         IN  Flt(x.n * y.n, x.d * y.d, x.k + y.k)

\* a / b of Python, one operand a float
PyDiv(a, b) ==
    IF IsExc(a) THEN a
    ELSE IF IsExc(b) THEN b
    ELSE IF ~(IsNum(a) /\ IsNum(b)) THEN Exc("TypeError")
    ELSE LET x == AsFloat(a)
             y == AsFloat(b)
         IN  IF y.n = 0 THEN Exc("ZeroDivisionError")
             ELSE Flt(x.n * y.d, x.d * y.n, x.k - y.k)

\* a < b for two numbers
NumLess(a, b) ==
    LET x == AsFloat(a)
        y == AsFloat(b)
    IN  IF x.k = y.k THEN x.n * y.d < y.n * x.d
        ELSE IF x.k > y.k THEN x.n < 0
        ELSE y.n > 0

\* a < b of Python 2: None sorts before every number, a number before every
\* object of another type
PyLess(a, b) ==
    IF IsNum(a) /\ IsNum(b) THEN NumLess(a, b)
    ELSE IF IsNone(a) THEN ~IsNone(b)
    ELSE IF IsNum(a) THEN ~IsNone(b)
    ELSE FALSE

PyLessEq(a, b) ==
    IF IsNum(a) /\ IsNum(b) THEN ~NumLess(b, a) ELSE a = b \/ PyLess(a, b)
PyGreater(a, b) == PyLess(b, a)

\* isinstance(var, cls)
isinstance(var, cls) == var.t = cls

-----------------------------------------------------------------------------
(* Results of a validator. *)

Ok(v) == [ok |-> TRUE, val |-> v]
Raise(exc, kind, at) == [ok |-> FALSE, exc |-> exc, kind |-> kind, at |-> at]
NoError == [ok |-> TRUE]

-----------------------------------------------------------------------------
(* SimEx.Utilities.EntityChecks and SimEx.Utilities.Utilities. *)

\* the table of chemical element symbols
ALL_ELEMENTS == {"H", "C", "B", "N"}

\* var if it is an instance of cls, the default if var is None
checkAndSetInstance(cls, var, default, at) ==
    IF IsNone(var) THEN Ok(default)
    ELSE IF ~isinstance(var, cls) THEN Raise("TypeError", "TypeMismatch", at)
    ELSE Ok(var)

checkAndSetInteger(var, at) ==
    IF ~isinstance(var, "int") THEN Raise("TypeError", "TypeMismatch", at)
    ELSE Ok(var)

checkAndSetPositiveInteger(var, at) ==
    IF ~isinstance(var, "int") THEN Raise("TypeError", "TypeMismatch", at)
    ELSE IF var.v <= 0 THEN Raise("ValueError", "OutOfRangeValue", at)
    ELSE Ok(var)

-----------------------------------------------------------------------------
(* Check and set functions. *)

\* 180 degrees rejected
AngleOutOfRange_Exclusive(angle) ==
    PyLessEq(angle, F(0, 1)) \/ ~PyLess(angle, F(180, 1))

AngleOutOfRange(angle) ==
    PyLessEq(angle, F(0, 1)) \/ PyGreater(angle, F(180, 1))

checkAndSetScatteringAngle(angle) ==
    LET at == "checkAndSetScatteringAngle"
    IN  IF IsNone(angle) THEN Raise("RuntimeError", "MissingRequiredValue", at)
        \* raise( ValueError, "..." ) of Python 2 raises ValueError
        ELSE IF AngleOutOfRange(angle) THEN Raise("ValueError", "OutOfRangeValue", at)
        ELSE Ok(angle)

SymbolUnknown(symbol) == ~(symbol.t = "str" /\ symbol.s \in ALL_ELEMENTS)

\* the charge -1 rejected
ChargeTooLow_Negative(chrg) == PyLess(chrg, PyInt(0))

ChargeTooLow(chrg) == PyLess(chrg, PyInt(-1))

\* the body of the loop over the elements, for one element
checkElement(element) ==
    LET at == "checkAndSetElements"
        inst == checkAndSetInstance("list", element, None, at)
    IN  IF ~inst.ok THEN inst
        \* symbol, stoch, chrg = None
        ELSE IF IsNone(inst.val) THEN Raise("TypeError", "TypeMismatch", at)
        \* symbol, stoch, chrg = a list of another length
        ELSE IF Len(inst.val.items) # 3 THEN Raise("ValueError", "Uncategorized", at)
        ELSE LET symbol == inst.val.items[1]
                 stoch == checkAndSetPositiveInteger(inst.val.items[2], at)
                 chrg == checkAndSetInteger(inst.val.items[3], at)
             IN  IF SymbolUnknown(symbol)
                 THEN Raise("ValueError", "InvalidChoice", at)
                 ELSE IF ~stoch.ok THEN stoch
                 ELSE IF ~chrg.ok THEN chrg
                 ELSE IF ChargeTooLow(chrg.val)
                 THEN Raise("ValueError", "OutOfRangeValue", at)
                 ELSE NoError

RECURSIVE checkEachElement(_, _)
checkEachElement(items, i) ==
    IF i > Len(items) THEN NoError
    ELSE LET r == checkElement(items[i])
         IN  IF r.ok THEN checkEachElement(items, i + 1) ELSE r

checkAndSetElements(elements) ==
    LET at == "checkAndSetElements"
        inst == checkAndSetInstance("list", elements, None, at)
    IN  IF IsNone(elements) THEN Raise("RuntimeError", "MissingRequiredValue", at)
        ELSE IF ~inst.ok THEN inst
        ELSE LET each == checkEachElement(inst.val.items, 1)
             IN  IF ~each.ok THEN each ELSE Ok(inst.val)

\* a default instead of the exception
checkAndSetElectronTemperature_Default(electron_temperature) ==
    LET at == "checkAndSetElectronTemperature"
        inst == checkAndSetInstance("float", electron_temperature, F(1, 1), at)
    IN  IF ~inst.ok THEN inst
        ELSE IF PyLessEq(inst.val, F(0, 1))
        THEN Raise("ValueError", "OutOfRangeValue", at)
        ELSE Ok(inst.val)

checkAndSetElectronTemperature(electron_temperature) ==
    LET at == "checkAndSetElectronTemperature"
        inst == checkAndSetInstance("float", electron_temperature, None, at)
    IN  IF IsNone(electron_temperature)
        THEN Raise("RuntimeError", "MissingRequiredValue", at)
        ELSE IF ~inst.ok THEN inst
        ELSE IF PyLessEq(inst.val, F(0, 1))
        THEN Raise("ValueError", "OutOfRangeValue", at)
        ELSE Ok(inst.val)

\* the factor Avogadro* 1e6
NA6 == Flt(1, 1, 1)

NotEnoughInput_OnlyAllNone(number_of_nones) == number_of_nones > 2

NotEnoughInput(number_of_nones) == number_of_nones > 1

\* abs( x - 1 ) > 1e-3
DeviatesFromOne_Loose(x) ==
    IF x.k = 0 THEN Abs(x.n - x.d) * 1000 > x.d ELSE TRUE

\* abs( x - 1 ) > 1e-4
DeviatesFromOne(x) ==
    IF x.k = 0 THEN Abs(x.n - x.d) * 10000 > x.d ELSE TRUE

\* the check of the relation and the return, all three values at hand
checkConsistency(electron_density, ion_charge, mass_density, ratio) ==
    LET at == "checkAndSetDensitiesAndCharge"
    IN  IF IsExc(ratio) THEN Raise(ratio.exc, "Uncategorized", at)
        ELSE IF DeviatesFromOne(ratio)
        THEN Raise("ValueError", "InconsistentPhysicalParameters", at)
        ELSE Ok(<<electron_density, ion_charge, mass_density>>)

\* the statements after "if mass_density is None"
afterMassDensity(electron_density, ion_charge, mass_density) ==
    IF IsExc(mass_density)
    THEN Raise(mass_density.exc, "Uncategorized", "checkAndSetDensitiesAndCharge")
    ELSE checkConsistency(electron_density, ion_charge, mass_density,
             PyDiv(electron_density, PyMul(PyMul(mass_density, ion_charge), NA6)))

\* "if mass_density is None" and the statements after it
afterIonCharge(electron_density, ion_charge, mass_density) ==
    IF IsExc(ion_charge)
    THEN Raise(ion_charge.exc, "Uncategorized", "checkAndSetDensitiesAndCharge")
    ELSE afterMassDensity(electron_density, ion_charge,
             IF IsNone(mass_density)
             THEN PyDiv(electron_density, PyMul(ion_charge, NA6))
             ELSE mass_density)

\* the ion charge computed without the factor Avogadro* 1e6
afterElectronDensity_NoFactor(electron_density, ion_charge, mass_density) ==
    IF IsExc(electron_density)
    THEN Raise(electron_density.exc, "Uncategorized", "checkAndSetDensitiesAndCharge")
    ELSE afterIonCharge(electron_density,
             IF IsNone(ion_charge)
             THEN PyDiv(electron_density, mass_density)
             ELSE ion_charge,
             mass_density)

\* "if ion_charge is None" and the statements after it
afterElectronDensity(electron_density, ion_charge, mass_density) ==
    IF IsExc(electron_density)
    THEN Raise(electron_density.exc, "Uncategorized", "checkAndSetDensitiesAndCharge")
    ELSE afterIonCharge(electron_density,
             IF IsNone(ion_charge)
             THEN PyDiv(electron_density, PyMul(mass_density, NA6))
             ELSE ion_charge,
             mass_density)

\* the electron density recomputed from the two others whenever they are given
checkAndSetDensitiesAndCharge_Recompute(electron_density, ion_charge, mass_density) ==
    LET given == <<electron_density, ion_charge, mass_density>>
        number_of_nones == Cardinality({i \in 1..3 : IsNone(given[i])})
    IN  IF NotEnoughInput(number_of_nones)
        THEN Raise("RuntimeError", "UnderspecifiedSystem", "checkAndSetDensitiesAndCharge")
        ELSE afterElectronDensity(
                 IF IsNone(electron_density) \/ number_of_nones = 0
                 THEN PyMul(PyMul(mass_density, ion_charge), NA6)
                 ELSE electron_density,
                 ion_charge, mass_density)

checkAndSetDensitiesAndCharge(electron_density, ion_charge, mass_density) ==
    LET given == <<electron_density, ion_charge, mass_density>>
        number_of_nones == Cardinality({i \in 1..3 : IsNone(given[i])})
    IN  IF NotEnoughInput(number_of_nones)
        THEN Raise("RuntimeError", "UnderspecifiedSystem", "checkAndSetDensitiesAndCharge")
        ELSE afterElectronDensity(
                 IF IsNone(electron_density)
                 THEN PyMul(PyMul(mass_density, ion_charge), NA6)
                 ELSE electron_density,
                 ion_charge, mass_density)

\* a fixed default instead of the electron temperature
checkAndSetIonTemperature_Fixed(ion_temperature, electron_temperature) ==
    LET at == "checkAndSetIonTemperature"
        inst == checkAndSetInstance("float", ion_temperature, F(1, 1), at)
    IN  IF IsNone(electron_temperature) /\ IsNone(ion_temperature)
        THEN Raise("RuntimeError", "MissingRequiredValue", at)
        ELSE IF ~inst.ok THEN inst
        ELSE IF PyLessEq(inst.val, F(0, 1))
        THEN Raise("ValueError", "OutOfRangeValue", at)
        ELSE Ok(inst.val)

checkAndSetIonTemperature(ion_temperature, electron_temperature) ==
    LET at == "checkAndSetIonTemperature"
        inst == checkAndSetInstance("float", ion_temperature, electron_temperature, at)
    IN  IF IsNone(electron_temperature) /\ IsNone(ion_temperature)
        THEN Raise("RuntimeError", "MissingRequiredValue", at)
        ELSE IF ~inst.ok THEN inst
        ELSE IF PyLessEq(inst.val, F(0, 1))
        THEN Raise("ValueError", "OutOfRangeValue", at)
        ELSE Ok(inst.val)

checkAndSetDebyeTemperature(debye_temperature) ==
    LET at == "checkAndSetDebyeTemperature"
        inst == checkAndSetInstance("float", debye_temperature, F(0, 1), at)
    IN  IF ~inst.ok THEN inst
        ELSE IF PyLess(inst.val, F(0, 1))
        THEN Raise("ValueError", "OutOfRangeValue", at)
        ELSE Ok(inst.val)

checkAndSetBandGap(band_gap) ==
    LET at == "checkAndSetBandGap"
        inst == checkAndSetInstance("float", band_gap, F(0, 1), at)
    IN  IF ~inst.ok THEN inst
        ELSE IF PyLess(inst.val, F(0, 1))
        THEN Raise("ValueError", "OutOfRangeValue", at)
        ELSE Ok(inst.val)

\* str.lower() on the strings of the model
Lower(s) ==
    CASE s = "ADV" -> "adv"
      [] s = "Adv" -> "adv"
      [] OTHER -> s

checkAndSetModelMix(model_Mix) ==
    LET at == "checkAndSetModelMix"
        lowered == IF isinstance(model_Mix, "str")
                   THEN PyStr(Lower(model_Mix.s))
                   ELSE model_Mix
    IN  IF lowered \notin {PyStr("adv"), None}
        THEN Raise("ValueError", "InvalidChoice", at)
        ELSE Ok(IF lowered = None THEN PyInt(0) ELSE PyInt(1))

checkAndSetLFC(lfc) ==
    checkAndSetInstance("float", lfc, F(0, 1), "checkAndSetLFC")

checkAndSetSbfNorm(Sbf_norm) ==
    IF Sbf_norm \notin {PyStr("FK"), PyStr("NO"), None} /\ ~isinstance(Sbf_norm, "float")
    THEN Raise("ValueError", "InvalidChoice", "checkAndSetSbfNorm")
    ELSE Ok(Sbf_norm)

PyDict(val) == [t |-> "dict", val |-> val]

\* the float n/d * wpl, wpl the plasma frequency
\* 4. * sqrt( electron_density * (bohr_radius_m * 1e2)**3 * pi ) * rydberg_energy_eV
PlasmaFrequencyTimes(n, d, electron_density) ==
    [t |-> "float", n |-> n, d |-> d, wpl |-> AsFloat(electron_density)]

\* a step of one plasma frequency
checkAndSetEnergyRange_Step(energy_range, electron_density) ==
    LET at == "checkAndSetEnergyRange"
        energy_range_default ==
            PyDict([min |-> PlasmaFrequencyTimes(-10, 1, electron_density),
                    max |-> PlasmaFrequencyTimes(10, 1, electron_density),
                    step |-> PlasmaFrequencyTimes(1, 1, electron_density)])
    IN  IF ~IsNum(electron_density) THEN Raise("TypeError", "Uncategorized", at)
        ELSE IF Sgn(electron_density) < 0 THEN Raise("ValueError", "Uncategorized", at)
        ELSE checkAndSetInstance("dict", energy_range, energy_range_default, at)

checkAndSetEnergyRange(energy_range, electron_density) ==
    LET at == "checkAndSetEnergyRange"
        energy_range_default ==
            PyDict([min |-> PlasmaFrequencyTimes(-10, 1, electron_density),
                    max |-> PlasmaFrequencyTimes(10, 1, electron_density),
                    step |-> PlasmaFrequencyTimes(1, 10, electron_density)])
    IN  IF ~IsNum(electron_density) THEN Raise("TypeError", "Uncategorized", at)
        \* math.sqrt of a negative number: math domain error
        ELSE IF Sgn(electron_density) < 0 THEN Raise("ValueError", "Uncategorized", at)
        ELSE checkAndSetInstance("dict", energy_range, energy_range_default, at)

\* another default model
checkAndSetModelSii_DefaultDH(model) ==
    LET m == IF IsNone(model) THEN PyStr("DH") ELSE model
        valid_models == {PyStr("DH"), PyStr("OCP"), PyStr("SOCP"), PyStr("SOCPN")}
    IN  IF ~(m \in valid_models \/ ~isinstance(m, "float"))
        THEN Raise("ValueError", "InvalidChoice", "checkAndSetModelSii")
        ELSE Ok(m)

checkAndSetModelSii(model) ==
    LET m == IF IsNone(model) THEN PyStr("SOCP") ELSE model
        valid_models == {PyStr("DH"), PyStr("OCP"), PyStr("SOCP"), PyStr("SOCPN")}
    IN  IF ~(m \in valid_models \/ ~isinstance(m, "float"))
        THEN Raise("ValueError", "InvalidChoice", "checkAndSetModelSii")
        ELSE Ok(m)

checkAndSetModelSee(model) ==
    LET at == "checkAndSetModelSee"
        inst == checkAndSetInstance("str", model, PyStr("RPA"), at)
        valid_models == {PyStr("RPA"), PyStr("Lindhard"), PyStr("static LFC"),
                         PyStr("dynamic LFC"), PyStr("BMA"), PyStr("BMA+sLFC"),
                         PyStr("BMA+dLFC")}
    IN  IF ~inst.ok THEN inst
        ELSE IF inst.val \notin valid_models
        THEN Raise("ValueError", "InvalidChoice", at)
        ELSE Ok(inst.val)

checkAndSetModelSbf(model) ==
    LET at == "checkAndSetModelSbf"
        inst == checkAndSetInstance("str", model, PyStr("IA"), at)
        valid_models == {PyStr("IA"), PyStr("IBA"), PyStr("FFA")}
    IN  IF ~inst.ok THEN inst
        ELSE IF inst.val \notin valid_models
        THEN Raise("ValueError", "InvalidChoice", at)
        ELSE Ok(inst.val)

checkAndSetModelIPL(model) ==
    LET m == IF IsNone(model) THEN PyStr("SP") ELSE model
        valid_models == {PyStr("SP"), PyStr("EK")}
    IN  IF ~(m \in valid_models \/ ~isinstance(m, "float"))
        THEN Raise("ValueError", "InvalidChoice", "checkAndSetModelIPL")
        ELSE Ok(m)

-----------------------------------------------------------------------------
(* The parameters object. *)

Fields == {"elements", "scattering_angle", "electron_temperature",
           "electron_density", "ion_temperature", "ion_charge", "mass_density",
           "debye_temperature", "band_gap", "energy_range", "model_Sii",
           "model_See", "model_Sbf", "model_IPL", "model_Mix", "lfc", "Sbf_norm"}

\* an attribute that was never assigned
Unset == [t |-> "unset"]

NoObject == [f \in Fields |-> Unset]

\* the statements of __init__, in order
Statements == <<"elements", "scattering_angle", "electron_temperature", "densities",
                "ion_temperature", "debye_temperature", "band_gap", "energy_range",
                "model_Sii", "model_See", "model_Sbf", "model_IPL", "model_Mix",
                "lfc", "Sbf_norm">>

\* the scattering angle checked before the elements
Checked_AngleFirst(i, a, o) ==
    CASE i = 1 -> checkAndSetScatteringAngle(a.scattering_angle)
      [] i = 2 -> checkAndSetElements(a.elements)
      [] i = 3 -> checkAndSetElectronTemperature(a.electron_temperature)
      [] i = 4 -> checkAndSetDensitiesAndCharge(a.electron_density, a.ion_charge,
                                                a.mass_density)
      [] i = 5 -> checkAndSetIonTemperature(a.ion_temperature, o.electron_temperature)
      [] i = 6 -> checkAndSetDebyeTemperature(a.debye_temperature)
      [] i = 7 -> checkAndSetBandGap(a.band_gap)
      [] i = 8 -> checkAndSetEnergyRange(a.energy_range, o.electron_density)
      [] i = 9 -> checkAndSetModelSii(a.model_Sii)
      [] i = 10 -> checkAndSetModelSee(a.model_See)
      [] i = 11 -> checkAndSetModelSbf(a.model_Sbf)
      [] i = 12 -> checkAndSetModelIPL(a.model_IPL)
      [] i = 13 -> checkAndSetModelMix(a.model_Mix)
      [] i = 14 -> checkAndSetLFC(a.lfc)
      [] i = 15 -> checkAndSetSbfNorm(a.Sbf_norm)

\* the right-hand side of statement i of __init__, o the attributes set so far
Checked(i, a, o) ==
    CASE i = 1 -> checkAndSetElements(a.elements)
      [] i = 2 -> checkAndSetScatteringAngle(a.scattering_angle)
      [] i = 3 -> checkAndSetElectronTemperature(a.electron_temperature)
      [] i = 4 -> checkAndSetDensitiesAndCharge(a.electron_density, a.ion_charge,
                                                a.mass_density)
      [] i = 5 -> checkAndSetIonTemperature(a.ion_temperature, o.electron_temperature)
      [] i = 6 -> checkAndSetDebyeTemperature(a.debye_temperature)
      [] i = 7 -> checkAndSetBandGap(a.band_gap)
      [] i = 8 -> checkAndSetEnergyRange(a.energy_range, o.electron_density)
      [] i = 9 -> checkAndSetModelSii(a.model_Sii)
      [] i = 10 -> checkAndSetModelSee(a.model_See)
      [] i = 11 -> checkAndSetModelSbf(a.model_Sbf)
      [] i = 12 -> checkAndSetModelIPL(a.model_IPL)
      [] i = 13 -> checkAndSetModelMix(a.model_Mix)
      [] i = 14 -> checkAndSetLFC(a.lfc)
      [] i = 15 -> checkAndSetSbfNorm(a.Sbf_norm)

\* the assignment of statement i of __init__
Assigned(i, o, val) ==
    IF i = 4
    THEN [o EXCEPT !.electron_density = val[1], !.ion_charge = val[2],
                   !.mass_density = val[3]]
    ELSE [o EXCEPT ![Statements[i]] = val]

\* statement i of __init__ with the result r of its right-hand side, and the
\* statements after it
RECURSIVE InitFrom(_, _, _, _)
InitFrom(i, a, o, r) ==
    IF ~r.ok THEN r
    ELSE IF i = Len(Statements) THEN Ok(Assigned(i, o, r.val))
    ELSE InitFrom(i + 1, a, Assigned(i, o, r.val),
                  Checked(i + 1, a, Assigned(i, o, r.val)))

\* the body of __init__: the object's attributes, or the first exception
InitResult(a) == InitFrom(1, a, NoObject, Checked(1, a, NoObject))

-----------------------------------------------------------------------------
(* Arguments of the calls. *)

Entry(symbol, stoch, chrg) == PyList(<<symbol, stoch, chrg>>)

ElementChoices ==
    {Entry(PyStr("C"), PyInt(1), PyInt(4)),
     Entry(PyStr("H"), PyInt(1), PyInt(-1)),
     Entry(PyStr("Xx"), PyInt(1), PyInt(1)),
     Entry(PyStr("C"), PyInt(0), PyInt(4)),
     Entry(PyStr("C"), PyInt(1), PyInt(-2)),
     Entry(PyStr("C"), F(1, 1), PyInt(4)),
     PyList(<<PyStr("C"), PyInt(1)>>)}

RECURSIVE ListsUpTo(_)
ListsUpTo(n) ==
    IF n = 0 THEN {<<>>}
    ELSE LET shorter == ListsUpTo(n - 1)
         IN  shorter \cup {Append(l, e) : l \in {x \in shorter : Len(x) = n - 1},
                                          e \in ElementChoices}

ElementsValues == {PyList(l) : l \in ListsUpTo(MaxElems)} \cup {None, PyStr("C")}

AngleValues == {None, F(0, 1), F(-5, 1), F(180, 1), F(1800001, 10000), F(45, 2),
                PyInt(90), PyStr("90")}

TemperatureValues == {None, F(5, 1), F(0, 1), F(-1, 1), PyInt(10)}

\* electron densities: 2 NA6, 2 NA6 (1 + 5e-5), 2 NA6 (1 + 2e-4), 0, -2 NA6
ElectronDensityValues == {None, Flt(2, 1, 1), Flt(20001, 10000, 1), Flt(5001, 2500, 1),
                          F(0, 1), Flt(-2, 1, 1)}
IonChargeValues == {None, F(1, 1), F(2, 1), F(-1, 1), F(0, 1)}
MassDensityValues == {None, F(2, 1), F(1, 1), F(-2, 1), F(0, 1)}

EnergyRangeValues ==
    {None,
     PyDict([min |-> F(-100, 1), max |-> F(100, 1), step |-> F(1, 2)]),
     PyDict([min |-> F(-100, 1), max |-> F(100, 1)]),
     PyDict([min |-> F(-100, 1), max |-> F(100, 1), step |-> F(1, 2),
             unit |-> PyStr("eV")]),
     PyStr("wide")}

\* the values tried for the keyword arguments validated on their own
ArgValues ==
    [elements |-> ElementsValues,
     scattering_angle |-> AngleValues,
     electron_temperature |-> TemperatureValues,
     ion_temperature |-> TemperatureValues,
     debye_temperature |-> {None, F(1, 2), F(-1, 1), PyInt(1)},
     band_gap |-> {None, F(2, 1), F(-1, 1)},
     energy_range |-> EnergyRangeValues,
     model_Sii |-> {None, PyStr("DH"), F(3, 2), F(-1, 1), PyStr("XYZ"), PyList(<<>>)},
     model_See |-> {None, PyStr("BMA"), PyStr("XYZ"), F(1, 1)},
     model_Sbf |-> {None, PyStr("FFA"), PyStr("XYZ")},
     model_IPL |-> {None, PyStr("EK"), F(5, 1), PyStr("XYZ")},
     model_Mix |-> {None, PyStr("ADV"), PyStr("adv"), PyStr("xyz"), PyInt(1)},
     lfc |-> {None, F(1, 2), PyInt(1)},
     Sbf_norm |-> {None, PyStr("FK"), F(1, 1), PyStr("XYZ")}]

\* a call that passes every check
ReferenceCall ==
    [elements |-> PyList(<<Entry(PyStr("C"), PyInt(1), PyInt(4)),
                           Entry(PyStr("H"), PyInt(1), PyInt(-1))>>),
     scattering_angle |-> F(90, 1),
     electron_temperature |-> F(10, 1),
     electron_density |-> None,
     ion_temperature |-> None,
     ion_charge |-> F(1, 1),
     mass_density |-> F(2, 1),
     debye_temperature |-> None,
     band_gap |-> None,
     energy_range |-> None,
     model_Sii |-> None,
     model_See |-> None,
     model_Sbf |-> None,
     model_IPL |-> None,
     model_Mix |-> None,
     lfc |-> None,
     Sbf_norm |-> None]

\* replacements of one keyword argument, or of the three of the density triple
Replacements ==
    UNION {{[f \in {g} |-> v] : v \in ArgValues[g]} : g \in DOMAIN ArgValues}
    \cup {[electron_density |-> ne, ion_charge |-> zf, mass_density |-> rho] :
            ne \in ElectronDensityValues, zf \in IonChargeValues,
            rho \in MassDensityValues}

Replace(a, r) == [f \in DOMAIN a |-> IF f \in DOMAIN r THEN r[f] ELSE a[f]]

\* the replacements that combine with each other
Probes ==
    {[elements |-> None],
     [elements |-> PyList(<<Entry(PyStr("Xx"), PyInt(1), PyInt(1))>>)],
     [scattering_angle |-> None],
     [scattering_angle |-> F(0, 1)],
     [electron_temperature |-> None],
     [electron_temperature |-> F(-1, 1)],
     [electron_density |-> None, ion_charge |-> None, mass_density |-> F(2, 1)],
     [electron_density |-> Flt(2, 1, 1), ion_charge |-> F(1, 1), mass_density |-> F(2, 1)],
     [ion_temperature |-> F(3, 1)],
     [ion_temperature |-> F(0, 1)],
     [debye_temperature |-> F(-1, 1)],
     [band_gap |-> F(-1, 1)],
     [energy_range |-> PyStr("wide")],
     [energy_range |-> PyDict([min |-> F(-100, 1), max |-> F(100, 1), step |-> F(1, 2)])],
     [model_Sii |-> F(3, 2)],
     [model_See |-> PyStr("XYZ")],
     [model_Sbf |-> PyStr("XYZ")],
     [model_IPL |-> F(5, 1)],
     [model_Mix |-> PyStr("xyz")],
     [model_Mix |-> PyStr("ADV")],
     [lfc |-> PyInt(1)],
     [Sbf_norm |-> PyStr("XYZ")]}

\* the calls that differ from the reference call in at most k probes
RECURSIVE Calls(_)
Calls(k) ==
    IF k = 0 THEN {ReferenceCall}
    ELSE LET fewer == Calls(k - 1)
         IN  fewer \cup {Replace(a, r) : a \in fewer, r \in Probes}

\* at most MaxDeviations replacements, all but one of them probes
ConstructorCalls ==
    LET fewer == Calls(MaxDeviations - 1)
    IN  fewer \cup {Replace(a, r) : a \in fewer, r \in Replacements \cup Probes}

-----------------------------------------------------------------------------
(* The input deck. *)

\* input_deck.write('text\n'), the text without a % operator
Lit(line, text) ==
    [line |-> line, text |-> text, loop |-> FALSE, format |-> FALSE,
     convs |-> <<>>, args |-> <<>>]

\* input_deck.write('text\n' % (args)); convs the conversion types of the text
Fmt(line, text, convs, args) ==
    [line |-> line, text |-> text, loop |-> FALSE, format |-> TRUE,
     convs |-> convs, args |-> args]

\* for i,element in enumerate(self.elements.keys()): input_deck.write(...)
Loop(line, text, convs) ==
    [line |-> line, text |-> text, loop |-> TRUE, format |-> TRUE,
     convs |-> convs, args |-> <<>>]

\* self.<name>, self.<name>[<key>], len(self.<name>)
Attr(name) == [get |-> "attr", name |-> name]
Item(name, key) == [get |-> "item", name |-> name, key |-> key]
LenOf(name) == [get |-> "len", name |-> name]

\* the statements of the with block of _initialize, in order; runs of blanks
\* in the texts are written as one blank
DeckStatements ==
    <<
     Lit(181, "--XRTS---input_file-----------------------------------"),
     Lit(182, "--"),
     Lit(183, "--fit_parameters------------------------------flag----"),
     Lit(184, "DO_FIT 0"),
     Fmt(185, "PHOTON_ENERGY %4.3f", <<"f">>, <<Item("_input_data", "photon_energy")>>),
     Fmt(186, "SCATTERING_ANGLE %4.3f", <<"f">>, <<Attr("scattering_angle")>>),
     Fmt(187, "ELECTRON_TEMP %4.3f 0", <<"f">>, <<Attr("electron_temperature")>>),
     Fmt(188, "ELECTRON_DENSITY %4.3e 0", <<"e">>, <<Attr("electron_density")>>),
     Lit(189, "AMPLITUDE 1.0 0"),
     Lit(190, "BASELINE 0.0 0"),
     Fmt(191, "Z_FREE %4.3f 0", <<"f">>, <<Attr("ion_charge")>>),
     Lit(192, "OUT(1=XSEC,2=PWR) 1"),
     Lit(193, "--model_for_total_spec---------use-flag--------------"),
     Fmt(194, "USE_RPA %d", <<"d">>, <<Attr("__use_rpa")>>),
     Fmt(195, "USE_LINDHARD %d", <<"d">>, <<Attr("__use_lindhard")>>),
     Lit(196, "USE_TSYTOVICH 0"),
     Fmt(197, "USE_STATIC_LFC %d", <<"d">>, <<Attr("__use_static_lfc")>>),
     Fmt(198, "USE_DYNAMIC_LFC %d", <<"d">>, <<Attr("__use_dynamic_lfc")>>),
     Fmt(199, "USE_MFF %d", <<"d">>, <<Attr("__use_mff")>>),
     Fmt(200, "USE_BMA %d", <<"d">>, <<Attr("__use_bma")>>),
     Fmt(201, "USE_BMA+sLFC", <<>>, <<Attr("__use_bma_slfc")>>),
     Lit(202, "USE_CORE 1"),
     Lit(203, "--gradients------------------------------------------"),
     Lit(204, "GRAD 0"),
     Lit(205, "L_GRADIENT 0.0e-0"),
     Lit(206, "T_GRADIENT 0.0"),
     Lit(207, "DSTEP 0.0"),
     Lit(208, "--ion_parameters----------------------------use_flag-"),
     Fmt(209, "ION_TEMP %d 1", <<"d">>, <<Attr("ion_temperature")>>),
     Fmt(210, "S_ION_FEATURE %4.3f %d", <<"f", "d">>,
         <<Attr("__Sii_value"), Attr("__use_Sii_value")>>),
     Fmt(211, "DEBYE_TEMP %4.3f %d", <<"f", "d">>,
         <<Attr("debye_temperature"), Attr("__use_debye_temperature")>>),
     Fmt(212, "BAND_GAP %4.3f %d", <<"f", "d">>,
         <<Attr("band_gap"), Attr("__use_band_gap")>>),
     Lit(214, "--integration----------------------------------------"),
     Lit(215, "N_DAWSON 32"),
     Lit(216, "N_DISTRIBUTION 32"),
     Lit(217, "N_PVI 32"),
     Lit(218, "N_LANDEN 512"),
     Lit(219, "N_RELAXATION 1024"),
     Lit(220, "N_FFT 4096"),
     Lit(221, "EPS 1.0E-4"),
     Lit(222, "--See(k,w)------------------------------use/norm-----"),
     Fmt(223, "STATIC_MODEL(DH,OCP,SOCP,SOCPN) %s", <<"s">>, <<Attr("model_Sii")>>),
     Fmt(224, "USE_ADV_Mix %d", <<"d">>, <<Attr("model_Mix")>>),
     Lit(225, "USE_IRS_MODEL 0"),
     Lit(226, "HARD_SPHERE_DIAM 1E-10 0"),
     Lit(227, "POLARIZABILITY 0.0 0.0"),
     Fmt(228, "BOUND-FREE_MODEL(IA,IBA,FFA) %s", <<"s">>, <<Attr("model_Sbf")>>),
     Fmt(229, "BOUND-FREE_NORM(FK,NO,USR) %s %d", <<"s", "d">>,
         <<Attr("Sbf_norm"), Attr("__normalize_Sbf")>>),
     Lit(230, "BOUND-FREE_MEFF 1.0"),
     Lit(231, "USE_BOUND-FREE_DOPPLER 0"),
     Fmt(232, "CONT-LOWR_MODEL(SP,EK,USR) %s", <<"s">>, <<Attr("model_IPL")>>),
     Lit(233, "GK %4.3f 0"),
     Fmt(234, "RPA %d 0", <<"d">>, <<Attr("__use_rpa")>>),
     Fmt(235, "LINDHARD %d 0", <<"d">>, <<Attr("__use_lindhard")>>),
     Lit(236, "SALPETER 0 0"),
     Lit(237, "LANDEN 0 0"),
     Lit(238, "RPA_TSYTOVICH 0 0"),
     Lit(239, "STATIC_LFC 0 0"),
     Lit(240, "DYNAMIC_LFC 0 0"),
     Lit(241, "MFF 0 0"),
     Fmt(242, "BMA(+sLFC) %d 0", <<"d">>, <<Attr("__write_bma")>>),
     Lit(243, "CORE 1 0"),
     Lit(244, "TOTAL 0 0"),
     Fmt(245, "E_MIN %4.3f", <<"f">>, <<Item("energy_range", "min")>>),
     Fmt(246, "E_MAX %4.3f", <<"f">>, <<Item("energy_range", "max")>>),
     Fmt(247, "E_STEP %4.3f", <<"f">>, <<Item("energy_range", "step")>>),
     Lit(248, "--target_spec--------------------------chem----Zfree--"),
     Fmt(249, "NUMBER_OF_SPECIES %d", <<"d">>, <<LenOf("elements")>>),
     Loop(250, "TARGET_%d %s %d %d", <<"d", "s", "d", "d">>),
     Fmt(252, "MASS_DENSITY %4.3f", <<"f">>, <<Attr("mass_density")>>),
     Fmt(253, "NE_ZF_LOCK %d", <<"d">>, <<Attr("__lock_zf")>>),
     Lit(254, "DATA_FILE data.txt"),
     Lit(255, "NUMBER_POINTS 1024"),
     Lit(256, "OPACITY_FILE nofile 0"),
     Lit(257, "--instrument_function---------------------------------"),
     Lit(258, "USE_FILE 0"),
     Lit(259, "FILE_NAME nofile.dat"),
     Lit(260, "INST_MODEL GAUSSIAN"),
     Lit(261, "INST_FWHM 5.0"),
     Lit(262, "BIN_PER_PIXEL 1.0"),
     Lit(263, "INST_INDEX 2.0"),
     Lit(264, "--additional_parameters-------------------------------"),
     Lit(265, "MAX_ITERATIONS 0"),
     Lit(266, "LEVENBERG_MARQUARDT 0"),
     Lit(267, "SIGMA_LM 1.0"),
     Lit(268, "SAVE_FILE xrts_out.txt")
    >>

\* the value of an argument of a write statement, o the attributes of the
\* object.  __init__ assigns the attributes of Fields and no other: a read of
\* any other attribute raises AttributeError.
Argument(x, o) ==
    LET at == "_initialize"
    IN  IF x.name \notin Fields THEN Raise("AttributeError", "Uncategorized", at)
        ELSE CASE x.get = "attr" -> Ok(o[x.name])
               [] x.get = "len" ->
                    IF o[x.name].t = "list" THEN Ok(PyInt(Len(o[x.name].items)))
                    ELSE IF o[x.name].t = "dict"
                    THEN Ok(PyInt(Cardinality(DOMAIN o[x.name].val)))
                    ELSE Raise("TypeError", "Uncategorized", at)
               [] x.get = "item" ->
                    IF o[x.name].t # "dict" THEN Raise("TypeError", "Uncategorized", at)
                    ELSE IF x.key \notin DOMAIN o[x.name].val
                    THEN Raise("KeyError", "Uncategorized", at)
                    ELSE Ok(o[x.name].val[x.key])

\* the arguments from the i-th on, r the result of the i-th
RECURSIVE Arguments(_, _, _, _, _)
Arguments(args, i, o, vals, r) ==
    IF ~r.ok THEN r
    ELSE IF i = Len(args) THEN Ok(Append(vals, r.val))
    ELSE Arguments(args, i + 1, o, Append(vals, r.val), Argument(args[i + 1], o))

\* text % vals: the line written, as the text and the values converted
Formatted(st, r) ==
    LET at == "_initialize"
    IN  IF ~r.ok THEN r
        ELSE IF Len(st.convs) # Len(r.val) THEN Raise("TypeError", "Uncategorized", at)
        ELSE IF \E i \in 1..Len(st.convs) :
                   st.convs[i] \in {"d", "f", "e"} /\ ~IsNum(r.val[i])
        THEN Raise("TypeError", "Uncategorized", at)
        ELSE Ok(<<[text |-> st.text, vals |-> r.val]>>)

\* the lines a statement writes, or the exception it raises
Written(st, o) ==
    LET at == "_initialize"
    IN  IF st.loop
        \* a list has no method keys
        THEN IF o.elements.t # "dict" THEN Raise("AttributeError", "Uncategorized", at)
             ELSE IF DOMAIN o.elements.val = {} THEN Ok(<<>>)
             \* element[1] of a key that is a string is no number
             ELSE Raise("TypeError", "Uncategorized", at)
        ELSE IF ~st.format THEN Ok(<<[text |-> st.text, vals |-> <<>>]>>)
        ELSE IF st.args = <<>> THEN Formatted(st, Ok(<<>>))
        ELSE Formatted(st, Arguments(st.args, 1, o, <<>>, Argument(st.args[1], o)))

\* the statements from the i-th on, r the result of the i-th: the lines that
\* reach the file, and the exception that ended the block if one did
RECURSIVE DeckFrom(_, _, _, _)
DeckFrom(i, o, lines, r) ==
    IF ~r.ok THEN [lines |-> lines, r |-> r]
    ELSE IF i = Len(DeckStatements) THEN [lines |-> lines \o r.val, r |-> NoError]
    ELSE DeckFrom(i + 1, o, lines \o r.val, Written(DeckStatements[i + 1], o))

\* no file input.dat; the file with its lines
\* no analysis has been asked for
NoAnalysis ==
    [made |-> FALSE,
     o |-> [f \in {"input_path", "sample_path", "snapshot_indices", "elements"}
              |-> Unset],
     nsnap |-> 0, loaded |-> <<>>, ran |-> FALSE, err |-> NoError, op |-> "none",
     asked |-> None]

NoFile == [t |-> "nofile"]
PyFile(lines) == [t |-> "file", lines |-> lines]

-----------------------------------------------------------------------------
(* Operations. *)

Init ==
    /\ self = NoObject
    /\ constructed = FALSE
    /\ err = NoError
    /\ last = [op |-> "none"]
    /\ nwrites = 0
    /\ classic \in BOOLEAN
    /\ tmp_dir = FALSE
    /\ input_deck = NoFile
    /\ analysis = NoAnalysis

\* PlasmaXRTSCalculatorParameters(**a)
\* r the result of the body of __init__
New(a, r) ==
    /\ self' = IF r.ok THEN r.val ELSE NoObject
    /\ constructed' = r.ok
    /\ err' = IF r.ok THEN NoError ELSE r
    /\ last' = [op |-> "init", args |-> a]
    /\ nwrites' = 0
    /\ UNCHANGED <<classic, tmp_dir, input_deck, analysis>>

\* one object is followed from its construction on
Construct ==
    /\ last.op = "none"
    /\ \E a \in ConstructorCalls : New(a, InitResult(a))

\* the values written through the accessors
WriteValues ==
    [elements |-> {None, PyList(<<>>),
                   PyList(<<Entry(PyStr("B"), PyInt(1), PyInt(2))>>),
                   PyList(<<Entry(PyStr("Xx"), PyInt(1), PyInt(1))>>)},
     scattering_angle |-> {None, F(0, 1), F(180, 1), F(1800001, 10000), F(30, 1)},
     electron_temperature |-> {None, F(5, 1), F(0, 1), PyInt(10)},
     electron_density |-> {Flt(3, 1, 1), F(-1, 1)},
     ion_temperature |-> {None, F(4, 1), F(-1, 1)},
     ion_charge |-> {F(3, 1), F(-1, 1)},
     mass_density |-> {F(3, 1), F(-1, 1)},
     debye_temperature |-> {None, F(1, 2), F(-1, 1)},
     band_gap |-> {None, F(2, 1), F(-1, 1)},
     energy_range |-> {None, PyDict([min |-> F(-50, 1), max |-> F(50, 1), step |-> F(1, 4)])},
     model_Sii |-> {None, PyStr("DH"), F(3, 2), PyStr("XYZ")},
     model_See |-> {None, PyStr("BMA"), PyStr("XYZ")},
     model_Sbf |-> {None, PyStr("FFA"), PyStr("XYZ")},
     model_IPL |-> {None, PyStr("EK"), F(5, 1), PyStr("XYZ")},
     model_Mix |-> {None, PyStr("ADV"), PyStr("xyz"), PyInt(0), PyInt(1)},
     lfc |-> {None, F(1, 2), PyInt(1)},
     Sbf_norm |-> {None, PyStr("NO"), F(1, 1), PyStr("XYZ")}]

\* the value bound in the instance before the right-hand side is evaluated
Write_StoreAnyway(field, value, r) ==
    /\ nwrites < MaxWrites
    /\ self' = [self EXCEPT ![field] = IF r.ok THEN r.val ELSE value]
    /\ err' = IF r.ok THEN NoError ELSE r
    /\ last' = [op |-> "set", field |-> field, value |-> value]
    /\ nwrites' = nwrites + 1
    /\ UNCHANGED <<constructed, classic, tmp_dir, input_deck, analysis>>

\* obj.<field> = value.  With a new-style class the setter is called and r is
\* the result of its right-hand side; with a classic class the value is bound
\* in the instance as it is and r is Ok(value).
Write(field, value, r) ==
    /\ nwrites < MaxWrites
    /\ self' = IF r.ok THEN [self EXCEPT ![field] = r.val] ELSE self
    /\ err' = IF r.ok THEN NoError ELSE r
    /\ last' = [op |-> "set", field |-> field, value |-> value]
    /\ nwrites' = nwrites + 1
    /\ UNCHANGED <<constructed, classic, tmp_dir, input_deck, analysis>>

SetElements ==
    /\ constructed
    /\ \E value \in WriteValues.elements :
        Write("elements", value,
              IF classic THEN Ok(value)
              ELSE checkAndSetElements(value))

SetScatteringAngle ==
    /\ constructed
    /\ \E value \in WriteValues.scattering_angle :
        Write("scattering_angle", value,
              IF classic THEN Ok(value)
              ELSE checkAndSetScatteringAngle(value))

SetElectronTemperature ==
    /\ constructed
    /\ \E value \in WriteValues.electron_temperature :
        Write("electron_temperature", value,
              IF classic THEN Ok(value)
              ELSE checkAndSetElectronTemperature(value))

\* checkAndSetElectronDensity is not defined
SetElectronDensity ==
    /\ constructed
    /\ \E value \in WriteValues.electron_density :
        Write("electron_density", value,
              IF classic THEN Ok(value)
              ELSE Raise("NameError", "Uncategorized", "electron_density.setter"))

\* the electron temperature is not passed on
SetIonTemperature ==
    /\ constructed
    /\ \E value \in WriteValues.ion_temperature :
        Write("ion_temperature", value,
              IF classic THEN Ok(value)
              ELSE checkAndSetIonTemperature(value, None))

\* checkAndSetIonCharge is not defined
SetIonCharge ==
    /\ constructed
    /\ \E value \in WriteValues.ion_charge :
        Write("ion_charge", value,
              IF classic THEN Ok(value)
              ELSE Raise("NameError", "Uncategorized", "ion_charge.setter"))

\* checkAndSetMassDensity is not defined
SetMassDensity ==
    /\ constructed
    /\ \E value \in WriteValues.mass_density :
        Write("mass_density", value,
              IF classic THEN Ok(value)
              ELSE Raise("NameError", "Uncategorized", "mass_density.setter"))

SetDebyeTemperature ==
    /\ constructed
    /\ \E value \in WriteValues.debye_temperature :
        Write("debye_temperature", value,
              IF classic THEN Ok(value)
              ELSE checkAndSetDebyeTemperature(value))

SetBandGap ==
    /\ constructed
    /\ \E value \in WriteValues.band_gap :
        Write("band_gap", value,
              IF classic THEN Ok(value)
              ELSE checkAndSetBandGap(value))

\* checkAndSetEnergyRange is called without its second argument
SetEnergyRange ==
    /\ constructed
    /\ \E value \in WriteValues.energy_range :
        Write("energy_range", value,
              IF classic THEN Ok(value)
              ELSE Raise("TypeError", "Uncategorized", "energy_range.setter"))

SetModelSii ==
    /\ constructed
    /\ \E value \in WriteValues.model_Sii :
        Write("model_Sii", value,
              IF classic THEN Ok(value)
              ELSE checkAndSetModelSii(value))

SetModelSee ==
    /\ constructed
    /\ \E value \in WriteValues.model_See :
        Write("model_See", value,
              IF classic THEN Ok(value)
              ELSE checkAndSetModelSee(value))

SetModelSbf ==
    /\ constructed
    /\ \E value \in WriteValues.model_Sbf :
        Write("model_Sbf", value,
              IF classic THEN Ok(value)
              ELSE checkAndSetModelSbf(value))

SetModelIPL ==
    /\ constructed
    /\ \E value \in WriteValues.model_IPL :
        Write("model_IPL", value,
              IF classic THEN Ok(value)
              ELSE checkAndSetModelIPL(value))

SetModelMix ==
    /\ constructed
    /\ \E value \in WriteValues.model_Mix :
        Write("model_Mix", value,
              IF classic THEN Ok(value)
              ELSE checkAndSetModelMix(value))

SetLFC ==
    /\ constructed
    /\ \E value \in WriteValues.lfc :
        Write("lfc", value,
              IF classic THEN Ok(value)
              ELSE checkAndSetLFC(value))

SetSbfNorm ==
    /\ constructed
    /\ \E value \in WriteValues.Sbf_norm :
        Write("Sbf_norm", value,
              IF classic THEN Ok(value)
              ELSE checkAndSetSbfNorm(value))

\* the outcomes of the file system: the scratch directory and the file are
\* created, tempfile.mkdtemp fails, open fails
FileSystem == {"ok", "mkdtemp", "open"}

\* obj._initialize(), d the lines and the exception of the with block.  The
\* with statement closes the file when the block is left, by an exception too:
\* the lines written so far are in the file.
Serialized(io, d) ==
    /\ tmp_dir' = (io # "mkdtemp")
    /\ input_deck' = IF io = "ok" THEN PyFile(d.lines) ELSE NoFile
    /\ err' = CASE io = "mkdtemp" -> Raise("OSError", "IOFailure", "tempfile.mkdtemp")
                [] io = "open" -> Raise("IOError", "IOFailure", "open")
                [] OTHER -> d.r
    /\ last' = [op |-> "_initialize", io |-> io]
    /\ UNCHANGED <<self, constructed, nwrites, classic, analysis>>

Initialize ==
    /\ constructed
    /\ \E io \in FileSystem :
        Serialized(io, DeckFrom(1, self, <<>>, Written(DeckStatements[1], self)))

\* the construction that starts the life of an object
Create ==
    /\ last.op = "none"
    /\ \E a \in Calls(1) : New(a, InitResult(a))

-----------------------------------------------------------------------------
(* Specifications. *)

\* the constructor on its own, over the wide set of calls
NextNew == Construct

SpecNew == Init /\ [][NextNew]_vars

\* an object from its construction through its accessor writes
Next ==
    \/ Create
    \/ SetElements
    \/ SetScatteringAngle
    \/ SetElectronTemperature
    \/ SetElectronDensity
    \/ SetIonTemperature
    \/ SetIonCharge
    \/ SetMassDensity
    \/ SetDebyeTemperature
    \/ SetBandGap
    \/ SetEnergyRange
    \/ SetModelSii
    \/ SetModelSee
    \/ SetModelSbf
    \/ SetModelIPL
    \/ SetModelMix
    \/ SetLFC
    \/ SetSbfNorm
    \/ Initialize

Spec == Init /\ [][Next]_vars

\* an object from its construction through its accessor writes, never serialized
NextWrite ==
    \/ Create
    \/ SetElements
    \/ SetScatteringAngle
    \/ SetElectronTemperature
    \/ SetElectronDensity
    \/ SetIonTemperature
    \/ SetIonCharge
    \/ SetMassDensity
    \/ SetDebyeTemperature
    \/ SetBandGap
    \/ SetEnergyRange
    \/ SetModelSii
    \/ SetModelSee
    \/ SetModelSbf
    \/ SetModelIPL
    \/ SetModelMix
    \/ SetLFC
    \/ SetSbfNorm

SpecWrite == Init /\ [][NextWrite]_vars

-----------------------------------------------------------------------------
(* SimEx/Analysis/XMDYNPhotonMatterAnalysis.py.  The attributes are set     *)
(* through the property setters.  The trajectory file at input_path holds   *)
(* the snapshots snp_0000001 .. snp_<nsnap>; whether the sample file can be *)
(* read is an input of the call.                                            *)

\* a value has the attribute __iter__ (a Python 2 str has none)
hasiter(value) == value.t \in {"list", "dict"}

\* the symbols of periodictable, after the marker 'All'
ELEMENT_SYMBOL == {"All", "H", "C", "N", "O"}

\* the paths that exist on the file system
ExistingPaths == {"traj.h5", "sample.h5"}

\* value in ELEMENT_SYMBOL
InElementSymbol(value) == value.t = "str" /\ value.s \in ELEMENT_SYMBOL

\* the setter of input_path
input_path_setter(value) ==
    IF ~isinstance(value, "str")
    THEN Raise("TypeError", "TypeMismatch", "input_path.setter")
    ELSE IF value.s \notin ExistingPaths
         THEN Raise("ValueError", "Uncategorized", "input_path.setter")
         ELSE Ok(value)

\* the setter of sample_path
sample_path_setter(value) ==
    IF ~isinstance(value, "str")
    THEN Raise("TypeError", "TypeMismatch", "sample_path.setter")
    ELSE IF value.s \notin ExistingPaths
         THEN Raise("ValueError", "Uncategorized", "sample_path.setter")
         ELSE Ok(value)

\* the setter of snapshot_indices
snapshot_indices_setter(value) ==
    LET v1 == IF IsNone(value) \/ value = PyStr("All")
              THEN PyList(<<PyStr("All")>>) ELSE value
        v2 == IF isinstance(v1, "int") THEN PyList(<<v1>>) ELSE v1
    IN  IF ~hasiter(v2)
        THEN Raise("TypeError", "TypeMismatch", "snapshot_indices.setter")
        ELSE IF \E i \in 1..Len(v2.items) :
                   ~(isinstance(v2.items[i], "int") \/ v2.items[i] = PyStr("All"))
             THEN Raise("TypeError", "TypeMismatch", "snapshot_indices.setter")
             ELSE Ok(v2)

\* the setter of elements
elements_setter(value) ==
    LET v1 == IF IsNone(value) \/ value = PyStr("All")
              THEN PyList(<<PyStr("All")>>) ELSE value
        v2 == IF isinstance(v1, "int") \/ InElementSymbol(v1)
              THEN PyList(<<v1>>) ELSE v1
    IN  IF ~hasiter(v2)
        THEN Raise("TypeError", "TypeMismatch", "elements.setter")
        ELSE IF \E i \in 1..Len(v2.items) :
                   ~(isinstance(v2.items[i], "int") \/ InElementSymbol(v2.items[i]))
             THEN Raise("ValueError", "InvalidChoice", "elements.setter")
             ELSE Ok(v2)

\* load_snapshot(snapshot_index) on a file of nsnap snapshots: the group
\* /data/snp_<index filled to seven digits>/ is read, and fp.get of a group
\* that is not there is None
load_snapshot(snapshot_index, nsnap) ==
    IF /\ isinstance(snapshot_index, "int")
       /\ snapshot_index.v >= 1
       /\ snapshot_index.v <= nsnap
    THEN NoError
    ELSE Raise("AttributeError", "Uncategorized", "load_snapshot")

\* range(1, n + 1)
range1(n) == [i \in 1..n |-> PyInt(i)]

RECURSIVE LoadFrom(_, _, _, _)
\* the loop of load_trajectory from its i-th turn on; passed are the values
\* handed to load_snapshot so far
LoadFrom(i, indices, nsnap, passed) ==
    IF i > Len(indices) THEN [r |-> NoError, loaded |-> passed]
    ELSE LET r == load_snapshot(indices[i], nsnap)
         IN  IF r.ok THEN LoadFrom(i + 1, indices, nsnap, Append(passed, indices[i]))
             ELSE [r |-> r, loaded |-> Append(passed, indices[i])]

\* load_trajectory() of an object with the attributes o
load_trajectory(o, nsnap, sample_ok) ==
    IF ~sample_ok
    THEN [r |-> Raise("IOError", "IOFailure", "loadPDB"), loaded |-> <<>>]
    ELSE LET snapshot_indices == IF o.snapshot_indices = PyStr("All")
                                 THEN range1(nsnap)
                                 ELSE o.snapshot_indices.items
         IN  LoadFrom(1, snapshot_indices, nsnap, <<>>)

\* the attributes of an analysis
AnalysisFields == {"input_path", "sample_path", "snapshot_indices", "elements"}

NoAttributes == [f \in AnalysisFields |-> Unset]

\* XMDYNPhotonMatterAnalysis(**a): the four assignments, then load_trajectory
AnalysisInit(a, nsnap, sample_ok) ==
    LET r1 == input_path_setter(a.input_path)
        r2 == sample_path_setter(a.sample_path)
        r3 == snapshot_indices_setter(a.snapshot_indices)
        r4 == elements_setter(a.elements)
        o1 == [NoAttributes EXCEPT !.input_path = r1.val]
        o2 == [o1 EXCEPT !.sample_path = r2.val]
        o3 == [o2 EXCEPT !.snapshot_indices = r3.val]
        o4 == [o3 EXCEPT !.elements = r4.val]
    IN  IF ~r1.ok THEN [o |-> NoAttributes, r |-> r1, loaded |-> <<>>, ran |-> FALSE]
        ELSE IF ~r2.ok THEN [o |-> o1, r |-> r2, loaded |-> <<>>, ran |-> FALSE]
        ELSE IF ~r3.ok THEN [o |-> o2, r |-> r3, loaded |-> <<>>, ran |-> FALSE]
        ELSE IF ~r4.ok THEN [o |-> o3, r |-> r4, loaded |-> <<>>, ran |-> FALSE]
        ELSE LET t == load_trajectory(o4, nsnap, sample_ok)
             IN  [o |-> o4, r |-> t.r, loaded |-> t.loaded, ran |-> sample_ok]

\* the arguments of the calls
PathValues == {None, PyStr("traj.h5"), PyStr("sample.h5"), PyStr("missing")}

SnapshotValues ==
    {None, PyStr("All"), PyList(<<PyStr("All")>>), PyInt(1), PyInt(MaxSnapshots + 1),
     PyList(<<>>), PyList(<<PyInt(1)>>), PyList(<<PyInt(2), PyInt(1)>>),
     PyList(<<PyInt(1), PyInt(0)>>), PyList(<<PyInt(1), PyStr("All")>>),
     PyList(<<F(1, 2)>>), PyStr("first"), F(1, 1)}

ElementValues == {None, PyStr("C"), PyList(<<PyStr("C"), PyInt(1)>>),
                  PyList(<<PyStr("Xx")>>), F(6, 1)}

AnalysisCalls ==
    [input_path : PathValues, sample_path : PathValues,
     snapshot_indices : SnapshotValues, elements : ElementValues]

\* the constructor, on a trajectory file of nsnap snapshots
Analyse ==
    /\ analysis.op = "none"
    /\ \E a \in AnalysisCalls, nsnap \in 0..MaxSnapshots, sample_ok \in BOOLEAN :
         LET x == AnalysisInit(a, nsnap, sample_ok)
         IN  analysis' = [made |-> x.r.ok, o |-> x.o, nsnap |-> nsnap,
                          loaded |-> x.loaded, ran |-> x.ran, err |-> x.r,
                          op |-> "init", asked |-> a.snapshot_indices]
    /\ UNCHANGED <<self, constructed, err, last, nwrites, classic, tmp_dir, input_deck>>

\* obj.snapshot_indices = value
SetSnapshotIndices ==
    /\ analysis.made
    /\ \E value \in SnapshotValues :
         LET r == snapshot_indices_setter(value)
         IN  analysis' = [analysis EXCEPT
                            !.o = IF r.ok THEN [@ EXCEPT !.snapshot_indices = r.val]
                                  ELSE @,
                            !.err = IF r.ok THEN NoError ELSE r,
                            !.loaded = <<>>, !.ran = FALSE,
                            !.op = "set", !.asked = value]
    /\ UNCHANGED <<self, constructed, err, last, nwrites, classic, tmp_dir, input_deck>>

\* obj.load_trajectory()
LoadTrajectory ==
    /\ analysis.made
    /\ \E sample_ok \in BOOLEAN :
         LET t == load_trajectory(analysis.o, analysis.nsnap, sample_ok)
         IN  analysis' = [analysis EXCEPT !.err = t.r, !.loaded = t.loaded,
                                          !.ran = sample_ok, !.op = "load"]
    /\ UNCHANGED <<self, constructed, err, last, nwrites, classic, tmp_dir, input_deck>>

\* an analysis from its construction on
NextAnalysis ==
    \/ Analyse
    \/ SetSnapshotIndices
    \/ LoadTrajectory

SpecAnalysis == Init /\ [][NextAnalysis]_vars

-----------------------------------------------------------------------------
(* Notions the properties are stated in. *)

\* the statement of __init__ a check and set function is called from
StatementOf ==
    [checkAndSetElements |-> 1, checkAndSetScatteringAngle |-> 2,
     checkAndSetElectronTemperature |-> 3, checkAndSetDensitiesAndCharge |-> 4,
     checkAndSetIonTemperature |-> 5, checkAndSetDebyeTemperature |-> 6,
     checkAndSetBandGap |-> 7, checkAndSetEnergyRange |-> 8,
     checkAndSetModelSii |-> 9, checkAndSetModelSee |-> 10,
     checkAndSetModelSbf |-> 11, checkAndSetModelIPL |-> 12,
     checkAndSetModelMix |-> 13, checkAndSetLFC |-> 14, checkAndSetSbfNorm |-> 15]

Called == last.op = "init"

\* the construction got as far as statement i
Reached(i) == Called /\ (constructed \/ StatementOf[err.at] >= i)

\* the construction got past statement i
Passed(i) == Called /\ (constructed \/ StatementOf[err.at] > i)

FailedWith(kind, at) == ~constructed /\ self = NoObject /\ ~err.ok
                        /\ err.kind = kind /\ err.at = at

TripleOf(a) == <<a.electron_density, a.ion_charge, a.mass_density>>

Absent(a) == Cardinality({i \in 1..3 : TripleOf(a)[i] = None})

\* every argument but those of S is as in the reference call
AsReferenceExcept(a, S) == \A f \in Fields \ S : a[f] = ReferenceCall[f]

\* every argument but the density triple is as in the reference call
OthersAsReference(a) ==
    AsReferenceExcept(a, {"electron_density", "ion_charge", "mass_density"})

\* a number in the interval (0, 180]
InAngleRange(v) ==
    \/ v.t = "float" /\ v.k = 0 /\ v.n > 0 /\ v.n <= 180 * v.d
    \/ v.t = "int" /\ v.v > 0 /\ v.v <= 180

\* [symbol, count, charge]: a symbol of the table, a positive integer, an
\* integer >= -1
ValidEntry(e) ==
    /\ e.t = "list"
    /\ Len(e.items) = 3
    /\ e.items[1].t = "str" /\ e.items[1].s \in ALL_ELEMENTS
    /\ e.items[2].t = "int" /\ e.items[2].v > 0
    /\ e.items[3].t = "int" /\ e.items[3].v >= -1

\* [symbol, count, charge] with a string that is no symbol of the table
UnknownSymbolEntry(e) ==
    /\ e.t = "list"
    /\ Len(e.items) = 3
    /\ e.items[1].t = "str" /\ e.items[1].s \notin ALL_ELEMENTS

IsPositive(v) == v.t = "float" /\ v.n > 0

\* | ne / (rho * zf * NA6) - 1 | compared with 1e-4, for zf and rho not zero
\* and all three floats; a different power of NA6 on the two sides is a
\* deviation of 1 or more
DeviationAbove(ne, zf, rho) ==
    IF ne.k # rho.k + zf.k + 1 THEN TRUE
    ELSE Abs(ne.n * rho.d * zf.d - rho.n * zf.n * ne.d) * 10000
             > Abs(rho.n * zf.n * ne.d)

DeviationBelow(ne, zf, rho) ==
    /\ ne.k = rho.k + zf.k + 1
    /\ Abs(ne.n * rho.d * zf.d - rho.n * zf.n * ne.d) * 10000
           < Abs(rho.n * zf.n * ne.d)

-----------------------------------------------------------------------------
(* Properties. *)

\* C1: a construction with two or three of electron_density, ion_charge and
\* mass_density absent never yields an object, whatever the other arguments
\* are; when it reaches the density triple it fails there with
\* UnderspecifiedSystem, whatever the arguments checked later are.
C1_UnderspecifiedFails ==
    /\ (Called /\ Absent(last.args) > 1) => ~constructed /\ self = NoObject /\ ~err.ok
    /\ (Reached(4) /\ Absent(last.args) > 1)
         => FailedWith("UnderspecifiedSystem", "checkAndSetDensitiesAndCharge")

C1_Witness ==
    /\ Reached(4)
    /\ Absent(last.args) = 2
    /\ FailedWith("UnderspecifiedSystem", "checkAndSetDensitiesAndCharge")

\* C2: with exactly one of the three absent and the two others positive, the
\* solver succeeds, keeps the two supplied values, the resolved triple satisfies
\* ne = rho * Zf * NA6 to within 1e-4, and the solver accepts the resolved
\* triple as an all-three input.
C2_TwoOfThreeResolved ==
    (Reached(4) /\ Absent(last.args) = 1
       /\ \A i \in 1..3 : TripleOf(last.args)[i] = None \/ IsPositive(TripleOf(last.args)[i]))
        => /\ Passed(4)
           /\ constructed =>
                /\ \A i \in 1..3 : TripleOf(last.args)[i] = None
                                   \/ TripleOf(self)[i] = TripleOf(last.args)[i]
                /\ \A i \in 1..3 : IsPositive(TripleOf(self)[i])
                /\ ~DeviationAbove(self.electron_density, self.ion_charge,
                                   self.mass_density)
                /\ checkAndSetDensitiesAndCharge(self.electron_density, self.ion_charge,
                                                 self.mass_density).ok

C2_Witness ==
    /\ constructed
    /\ Called
    /\ last.args.ion_charge = None
    /\ last.args.electron_density = Flt(20001, 10000, 1)
    /\ last.args.mass_density = F(2, 1)
    /\ self.ion_charge = F(20001, 20000)

\* C3: with all three supplied (none of them zero) and a relative deviation
\* above 1e-4 a construction never yields an object, whatever the other
\* arguments are, and when it reaches the density triple it fails there with
\* InconsistentPhysicalParameters.
C3_InconsistentFails ==
    (Called /\ Absent(last.args) = 0
       /\ last.args.ion_charge.n # 0 /\ last.args.mass_density.n # 0
       /\ DeviationAbove(last.args.electron_density, last.args.ion_charge,
                         last.args.mass_density))
        => /\ ~constructed /\ self = NoObject /\ ~err.ok
           /\ Reached(4) => FailedWith("InconsistentPhysicalParameters",
                                       "checkAndSetDensitiesAndCharge")

C3_Witness ==
    /\ Reached(4)
    /\ TripleOf(last.args) = <<Flt(5001, 2500, 1), F(1, 1), F(2, 1)>>
    /\ FailedWith("InconsistentPhysicalParameters", "checkAndSetDensitiesAndCharge")

\* C4: with all three supplied, positive, and a relative deviation below 1e-4,
\* the solver does not fail, the construction succeeds when the other arguments
\* are those of the reference call, and the three fields read back equal to the
\* three supplied values.
C4_ConsistentKept ==
    (Reached(4) /\ Absent(last.args) = 0
       /\ \A i \in 1..3 : IsPositive(TripleOf(last.args)[i])
       /\ DeviationBelow(last.args.electron_density, last.args.ion_charge,
                         last.args.mass_density))
        => /\ Passed(4)
           /\ OthersAsReference(last.args) => constructed
           /\ constructed => TripleOf(self) = TripleOf(last.args)

C4_Witness ==
    /\ constructed
    /\ Called
    /\ TripleOf(last.args) = <<Flt(20001, 10000, 1), F(1, 1), F(2, 1)>>
    /\ TripleOf(self) = <<Flt(20001, 10000, 1), F(1, 1), F(2, 1)>>

\* C5: in every constructed object electron_density, ion_charge and
\* mass_density are positive, and a construction that reaches the density
\* triple with a supplied value that is zero or negative fails with an error of
\* the taxonomy.
C5_TriplePositive ==
    /\ (Called /\ constructed) => \A i \in 1..3 : IsPositive(TripleOf(self)[i])
    /\ (Reached(4) /\ Absent(last.args) < 2
          /\ \E i \in 1..3 : TripleOf(last.args)[i] # None
                             /\ ~IsPositive(TripleOf(last.args)[i]))
         => ~constructed /\ err.kind # "Uncategorized"

C7_MissingWhateverOthers ==
    (Called /\ (\/ last.args.elements = None
                \/ last.args.scattering_angle = None
                \/ last.args.electron_temperature = None))
        => ~constructed /\ err.kind = "MissingRequiredValue"

\* C7 amended: a construction with elements absent fails with
\* MissingRequiredValue whatever the other arguments are; with scattering_angle
\* or electron_temperature absent it fails and no object results, with
\* MissingRequiredValue for that field when the arguments checked before it pass
\* and with the error of the elements or of the scattering angle otherwise.
C7_MissingFails ==
    Called =>
        /\ last.args.elements = None
             => FailedWith("MissingRequiredValue", "checkAndSetElements")
        /\ last.args.scattering_angle = None
             => /\ ~constructed /\ self = NoObject
                /\ IF Reached(2)
                   THEN FailedWith("MissingRequiredValue", "checkAndSetScatteringAngle")
                   ELSE err.at = "checkAndSetElements"
        /\ last.args.electron_temperature = None
             => /\ ~constructed /\ self = NoObject
                /\ IF Reached(3)
                   THEN FailedWith("MissingRequiredValue", "checkAndSetElectronTemperature")
                   ELSE err.at \in {"checkAndSetElements", "checkAndSetScatteringAngle"}

C7_Witness ==
    /\ Called
    /\ last.args.elements = ReferenceCall.elements
    /\ last.args.scattering_angle = F(90, 1)
    /\ last.args.electron_temperature = None
    /\ FailedWith("MissingRequiredValue", "checkAndSetElectronTemperature")

\* C8: a construction that reaches the ion temperature with ion_temperature
\* absent does not fail there, succeeds when the other arguments but the
\* electron temperature are those of the reference call, and stores the
\* supplied electron temperature as ion temperature; with both temperatures
\* absent a construction that reaches the electron temperature fails with
\* MissingRequiredValue.
C8_IonTemperatureDefault ==
    /\ (Reached(5) /\ last.args.ion_temperature = None)
         => /\ Passed(5)
            /\ AsReferenceExcept(last.args, {"electron_temperature"}) => constructed
            /\ constructed => /\ self.ion_temperature = last.args.electron_temperature
                              /\ self.electron_temperature = last.args.electron_temperature
    /\ (Reached(3) /\ last.args.ion_temperature = None
          /\ last.args.electron_temperature = None)
         => FailedWith("MissingRequiredValue", "checkAndSetElectronTemperature")

C8_Witness ==
    /\ Called
    /\ constructed
    /\ last.args.ion_temperature = None
    /\ last.args.electron_temperature = F(5, 1)
    /\ self.ion_temperature = F(5, 1)

\* C9: a list of elements passes the check exactly when every entry is
\* [symbol, count, charge] with the symbol in the table, the count a positive
\* integer and the charge an integer >= -1, and it is stored as passed; when the
\* first entry that is not of this form has an unknown symbol the construction
\* fails with InvalidChoice.
C9_ElementsAccepted ==
    (Called /\ last.args.elements.t = "list")
        => LET items == last.args.elements.items
               bad == {i \in 1..Len(items) : ~ValidEntry(items[i])}
           IN  /\ Passed(1) <=> bad = {}
               /\ constructed => self.elements = last.args.elements
               /\ \A i \in bad :
                     ((\A j \in bad : i <= j) /\ UnknownSymbolEntry(items[i]))
                         => FailedWith("InvalidChoice", "checkAndSetElements")

C9_Witness ==
    /\ Called
    /\ constructed
    /\ last.args.elements = PyList(<<Entry(PyStr("C"), PyInt(1), PyInt(4)),
                                     Entry(PyStr("H"), PyInt(1), PyInt(-1))>>)
    /\ self.elements = last.args.elements

\* C10: the elements of a constructed object are a non-empty sequence.
C10_ElementsNonEmpty ==
    constructed => Len(self.elements.items) > 0

\* C11: when energy_range is omitted, the stored window is min = -10 wpl,
\* max = 10 wpl, step = 0.1 wpl, wpl the plasma frequency of the electron
\* density the object holds after the density triple was resolved (the product
\* mass_density * ion_charge * NA6 when electron_density was omitted too).
C11_DefaultEnergyRange ==
    (Called /\ constructed /\ last.args.energy_range = None)
        => LET window == self.energy_range.val
               resolved == AsFloat(self.electron_density)
           IN  /\ self.energy_range.t = "dict"
               /\ DOMAIN window = {"min", "max", "step"}
               /\ window.max.n = 10 /\ window.max.d = 1
               /\ window.min.n = -window.max.n /\ window.min.d = window.max.d
               /\ window.step.n = 1 /\ window.step.d = 10
               /\ \A key \in DOMAIN window : window[key].wpl = resolved
               /\ Sgn(resolved) > 0
               /\ last.args.electron_density = None
                    => resolved = PyMul(PyMul(self.mass_density, self.ion_charge), NA6)
               /\ last.args.electron_density # None
                    => resolved = last.args.electron_density

C11_Witness ==
    /\ Called
    /\ constructed
    /\ last.args.energy_range = None
    /\ last.args.electron_density = None
    /\ last.args.ion_charge = F(2, 1)
    /\ last.args.mass_density = F(2, 1)
    /\ self.energy_range.val.step = [t |-> "float", n |-> 1, d |-> 10, wpl |-> Flt(4, 1, 1)]

\* C12: the energy_range of a constructed object that was given a record has
\* exactly the keys min, max and step and is the record as supplied.
C12_EnergyRangeKeys ==
    (Called /\ constructed /\ last.args.energy_range.t = "dict")
        => /\ DOMAIN last.args.energy_range.val = {"min", "max", "step"}
           /\ self.energy_range = last.args.energy_range

\* C13: a construction that reaches a selector with a number in place of a
\* named model (a non-negative float for model_Sii, a float for model_IPL and
\* for Sbf_norm) passes it and stores the number.
C13_NumbersAccepted ==
    /\ (Reached(9) /\ last.args.model_Sii.t = "float" /\ Sgn(last.args.model_Sii) >= 0)
         => Passed(9) /\ (constructed => self.model_Sii = last.args.model_Sii)
    /\ (Reached(12) /\ last.args.model_IPL.t = "float")
         => Passed(12) /\ (constructed => self.model_IPL = last.args.model_IPL)
    /\ (Reached(15) /\ last.args.Sbf_norm.t = "float")
         => Passed(15) /\ (constructed => self.Sbf_norm = last.args.Sbf_norm)

\* the named models of the selectors
NamedModels ==
    [model_Sii |-> {"DH", "OCP", "SOCP", "SOCPN"},
     model_See |-> {"RPA", "Lindhard", "static LFC", "dynamic LFC", "BMA",
                    "BMA+sLFC", "BMA+dLFC"},
     model_Sbf |-> {"IA", "IBA", "FFA"},
     model_IPL |-> {"SP", "EK"},
     model_Mix |-> {"ADV", "adv", "Adv"},
     Sbf_norm |-> {"FK", "NO"}]

SelectorCheck ==
    [model_Sii |-> "checkAndSetModelSii", model_See |-> "checkAndSetModelSee",
     model_Sbf |-> "checkAndSetModelSbf", model_IPL |-> "checkAndSetModelIPL",
     model_Mix |-> "checkAndSetModelMix", Sbf_norm |-> "checkAndSetSbfNorm"]

\* C14: a construction that reaches a selector with a string that is none of
\* its named models fails there with InvalidChoice, and one that reaches
\* model_Sii with a negative float fails there.
C14_InvalidChoiceRejected ==
    /\ \A f \in DOMAIN NamedModels :
          (Reached(StatementOf[SelectorCheck[f]]) /\ last.args[f].t = "str"
             /\ last.args[f].s \notin NamedModels[f])
            => FailedWith("InvalidChoice", SelectorCheck[f])
    /\ (Reached(9) /\ last.args.model_Sii.t = "float" /\ Sgn(last.args.model_Sii) < 0)
         => ~constructed /\ err.at = "checkAndSetModelSii"

\* the values the optional fields are documented to default to
DeclaredDefaults ==
    [debye_temperature |-> F(0, 1), band_gap |-> F(0, 1), lfc |-> F(0, 1),
     model_Sii |-> PyStr("SOCP"), model_See |-> PyStr("RPA"),
     model_Sbf |-> PyStr("IA"), model_IPL |-> PyStr("SP"), model_Mix |-> None,
     Sbf_norm |-> None]

Wrote(f) == last'.op = "set" /\ last'.field = f /\ nwrites' = nwrites + 1

TripleFields == {"electron_density", "ion_charge", "mass_density"}

C17_FieldInvariants ==
    constructed
        => /\ IsNum(self.scattering_angle) /\ InAngleRange(self.scattering_angle)
           /\ IsNum(self.electron_temperature) /\ Sgn(self.electron_temperature) > 0
           /\ IsNum(self.ion_temperature) /\ Sgn(self.ion_temperature) > 0
           /\ IsNum(self.debye_temperature) /\ Sgn(self.debye_temperature) >= 0
           /\ IsNum(self.band_gap) /\ Sgn(self.band_gap) >= 0

\* an object all of whose fields satisfy the data model
FullyValid(o) ==
    /\ o.elements.t = "list" /\ Len(o.elements.items) > 0
    /\ \A i \in 1..Len(o.elements.items) : ValidEntry(o.elements.items[i])
    /\ o.scattering_angle.t = "float" /\ InAngleRange(o.scattering_angle)
    /\ IsPositive(o.electron_temperature) /\ IsPositive(o.ion_temperature)
    /\ \A f \in TripleFields : IsPositive(o[f])
    /\ ~DeviationAbove(o.electron_density, o.ion_charge, o.mass_density)
    /\ o.debye_temperature.t = "float" /\ Sgn(o.debye_temperature) >= 0
    /\ o.band_gap.t = "float" /\ Sgn(o.band_gap) >= 0
    /\ o.lfc.t = "float"
    /\ o.energy_range.t = "dict" /\ DOMAIN o.energy_range.val = {"min", "max", "step"}
    /\ \A f \in {"model_Sii", "model_See", "model_Sbf", "model_IPL"} :
          o[f].t = "str" /\ o[f].s \in NamedModels[f]
    /\ o.model_Mix \in {PyInt(0), PyInt(1)}
    /\ o.Sbf_norm \in {None, PyStr("FK"), PyStr("NO")}

Serialization == last.op = "_initialize"

\* the lines hold NUMBER_OF_SPECIES len(elements), followed by exactly one
\* TARGET line per element, in order
SpeciesBlock(lines, elements) ==
    \E i \in 1..Len(lines) :
        /\ lines[i] = [text |-> "NUMBER_OF_SPECIES %d", vals |-> <<PyInt(Len(elements))>>]
        /\ i + Len(elements) <= Len(lines)
        /\ \A j \in 1..Len(elements) :
              lines[i + j] = [text |-> "TARGET_%d %s %d %d",
                              vals |-> <<PyInt(j), elements[j].items[1],
                                         elements[j].items[2], elements[j].items[3]>>]
        /\ i + Len(elements) < Len(lines)
             => lines[i + Len(elements) + 1].text # "TARGET_%d %s %d %d"

\* C18: after the serialization of a fully valid object, with the file system
\* working, input.dat holds the line NUMBER_OF_SPECIES len(elements) followed
\* by exactly one line per element, the i-th with the index i and the symbol,
\* stoichiometry and charge of the i-th element.
C18_SpeciesBlock ==
    (Serialization /\ last.io = "ok" /\ FullyValid(self))
        => /\ input_deck.t = "file"
           /\ SpeciesBlock(input_deck.lines, self.elements.items)

\* C19: the serialization of a fully valid object either completes, with the
\* file written to its last line, or fails with a failure of the file system.
C19_SerializationCompletes ==
    (Serialization /\ FullyValid(self))
        => \/ /\ err.ok
              /\ input_deck.t = "file"
              /\ Len(input_deck.lines) > 0
              /\ input_deck.lines[Len(input_deck.lines)].text
                     = DeckStatements[Len(DeckStatements)].text
           \/ ~err.ok /\ err.kind = "IOFailure"

\* C20: after a serialization that failed there is no file input.dat.
C20_AllOrNothing ==
    (Serialization /\ ~err.ok) => input_deck = NoFile

\* the flag lines of the candidate models, and the model_See each stands for
FlagModel ==
    [USE_RPA |-> "RPA", USE_LINDHARD |-> "Lindhard", USE_STATIC_LFC |-> "static LFC",
     USE_DYNAMIC_LFC |-> "dynamic LFC", USE_BMA |-> "BMA", USE_BMA_sLFC |-> "BMA+sLFC"]

FlagText ==
    [USE_RPA |-> "USE_RPA %d", USE_LINDHARD |-> "USE_LINDHARD %d",
     USE_STATIC_LFC |-> "USE_STATIC_LFC %d", USE_DYNAMIC_LFC |-> "USE_DYNAMIC_LFC %d",
     USE_BMA |-> "USE_BMA %d", USE_BMA_sLFC |-> "USE_BMA+sLFC"]

\* C21: after the serialization of a fully valid object, with the file system
\* working, input.dat holds one line for each of the flags USE_RPA,
\* USE_LINDHARD, USE_STATIC_LFC, USE_DYNAMIC_LFC, USE_BMA and USE_BMA+sLFC, with
\* the value 1 when the flag is that of the object's model_See and 0 otherwise.
C21_ModelFlags ==
    (Serialization /\ last.io = "ok" /\ FullyValid(self))
        => /\ input_deck.t = "file"
           /\ \A flag \in DOMAIN FlagModel :
                 \E i \in 1..Len(input_deck.lines) :
                     /\ input_deck.lines[i].text = FlagText[flag]
                     /\ input_deck.lines[i].vals
                          = <<PyInt(IF self.model_See = PyStr(FlagModel[flag])
                                    THEN 1 ELSE 0)>>

\* the lines that open the sections of the deck, in the order of the sections
SectionOrder ==
    <<"--XRTS---input_file-----------------------------------",
      "--fit_parameters------------------------------flag----",
      "--model_for_total_spec---------use-flag--------------",
      "--gradients------------------------------------------",
      "--ion_parameters----------------------------use_flag-",
      "--integration----------------------------------------",
      "--See(k,w)------------------------------use/norm-----",
      "--target_spec--------------------------chem----Zfree--",
      "--instrument_function---------------------------------",
      "--additional_parameters-------------------------------">>

OpensSection(line) == \E i \in 1..Len(SectionOrder) : line.text = SectionOrder[i]

\* the texts of the lines of a deck that open a section, in the order of the deck
RECURSIVE SectionsOf(_)
SectionsOf(lines) ==
    IF lines = <<>> THEN <<>>
    ELSE IF OpensSection(Head(lines))
    THEN <<Head(lines).text>> \o SectionsOf(Tail(lines))
    ELSE SectionsOf(Tail(lines))

\* C22: after a serialization of a constructed object, with the file system
\* working, input.dat holds the ten sections, each once, in the fixed order.
C22_SectionOrder ==
    (Serialization /\ last.io = "ok")
        => /\ input_deck.t = "file"
           /\ SectionsOf(input_deck.lines) = SectionOrder

\* the check and set function of each statement of __init__
CheckOf ==
    <<"checkAndSetElements", "checkAndSetScatteringAngle",
      "checkAndSetElectronTemperature", "checkAndSetDensitiesAndCharge",
      "checkAndSetIonTemperature", "checkAndSetDebyeTemperature",
      "checkAndSetBandGap", "checkAndSetEnergyRange", "checkAndSetModelSii",
      "checkAndSetModelSee", "checkAndSetModelSbf", "checkAndSetModelIPL",
      "checkAndSetModelMix", "checkAndSetLFC", "checkAndSetSbfNorm">>

\* the primitive types a field is documented to take: a real (an int counts
\* as one), a string, a list, a record
ExpectedTypes ==
    [elements |-> {"list"},
     scattering_angle |-> {"float", "int"},
     electron_temperature |-> {"float", "int"},
     ion_temperature |-> {"float", "int"},
     debye_temperature |-> {"float", "int"},
     band_gap |-> {"float", "int"},
     energy_range |-> {"dict"},
     model_Sii |-> {"str", "float", "int"},
     model_See |-> {"str"},
     model_Sbf |-> {"str"},
     model_IPL |-> {"str", "float", "int"},
     model_Mix |-> {"str"},
     lfc |-> {"float", "int"},
     Sbf_norm |-> {"str", "float", "int"}]

\* C23: a construction that reaches the check of a field with a value that is
\* present and of none of the field's types fails there with TypeMismatch, and
\* no object results.
C23_StrictTypes ==
    \A i \in 1..Len(Statements) :
        (/\ Statements[i] \in DOMAIN ExpectedTypes
         /\ Reached(i)
         /\ last.args[Statements[i]] # None
         /\ last.args[Statements[i]].t \notin ExpectedTypes[Statements[i]])
            => FailedWith("TypeMismatch", CheckOf[i])

WellFormedRange(v) == v.t = "dict" /\ DOMAIN v.val = {"min", "max", "step"}

PrintedFields ==
    {f \in Fields : \E i \in 1..Len(DeckStatements) :
                        \E k \in 1..Len(DeckStatements[i].args) :
                            DeckStatements[i].args[k] = Attr(f)}

\* the lines hold the line of the deck that prints self.<f>, with the value v
ShowsField(lines, f, v) ==
    \E i \in 1..Len(DeckStatements) :
        \E k \in 1..Len(DeckStatements[i].args) :
            /\ DeckStatements[i].args[k] = Attr(f)
            /\ \E j \in 1..Len(lines) :
                  /\ lines[j].text = DeckStatements[i].text
                  /\ lines[j].vals[k] = v

\* C25: a serialization leaves every field as it is, and the serialization
\* that follows a successful accessor write on a fully valid object, with the
\* file system working, writes the line of the written field with the field's
\* current value.
C25_DeckFromCurrentState ==
    [][last'.op = "_initialize"
          => /\ self' = self
             /\ (/\ last.op = "set" /\ err.ok
                 /\ last.field \in PrintedFields
                 /\ FullyValid(self)
                 /\ last'.io = "ok")
                  => /\ input_deck'.t = "file"
                     /\ ShowsField(input_deck'.lines, last.field, self[last.field])]_vars

\* the order the fields are to be validated in
ValidationOrder ==
    <<"elements", "scattering_angle", "electron_temperature", "density triple",
      "ion_temperature", "debye_temperature", "band_gap", "energy_range",
      "model_Sii", "model_See", "model_Sbf", "model_IPL", "model_Mix", "lfc",
      "Sbf_norm">>

\* the electron density the arguments resolve to, when they do
ResolvedDensity(a) ==
    LET r == checkAndSetDensitiesAndCharge(a.electron_density, a.ion_charge,
                                           a.mass_density)
    IN  IF r.ok THEN r.val[1] ELSE None

\* the check of one field on its own, on the arguments of the call
CheckAlone(f, a) ==
    CASE f = "elements" -> checkAndSetElements(a.elements)
      [] f = "scattering_angle" -> checkAndSetScatteringAngle(a.scattering_angle)
      [] f = "electron_temperature" ->
            checkAndSetElectronTemperature(a.electron_temperature)
      [] f = "density triple" ->
            checkAndSetDensitiesAndCharge(a.electron_density, a.ion_charge,
                                          a.mass_density)
      [] f = "ion_temperature" ->
            checkAndSetIonTemperature(a.ion_temperature, a.electron_temperature)
      [] f = "debye_temperature" -> checkAndSetDebyeTemperature(a.debye_temperature)
      [] f = "band_gap" -> checkAndSetBandGap(a.band_gap)
      [] f = "energy_range" -> checkAndSetEnergyRange(a.energy_range, ResolvedDensity(a))
      [] f = "model_Sii" -> checkAndSetModelSii(a.model_Sii)
      [] f = "model_See" -> checkAndSetModelSee(a.model_See)
      [] f = "model_Sbf" -> checkAndSetModelSbf(a.model_Sbf)
      [] f = "model_IPL" -> checkAndSetModelIPL(a.model_IPL)
      [] f = "model_Mix" -> checkAndSetModelMix(a.model_Mix)
      [] f = "lfc" -> checkAndSetLFC(a.lfc)
      [] f = "Sbf_norm" -> checkAndSetSbfNorm(a.Sbf_norm)

\* the places in the order of the fields whose check rejects the arguments
Rejected(a) == {i \in 1..Len(ValidationOrder) : ~CheckAlone(ValidationOrder[i], a).ok}

\* C26: a construction succeeds when the check of every field accepts the
\* arguments; otherwise it fails with the exception of the first field, in the
\* order elements, scattering_angle, electron_temperature, density triple,
\* ion_temperature, debye_temperature, band_gap, energy_range, model_Sii,
\* model_See, model_Sbf, model_IPL, model_Mix, lfc, Sbf_norm, whose check
\* rejects them, and no object results, no attribute being set.
C26_FirstFailure ==
    Called
        => IF Rejected(last.args) = {}
           THEN constructed /\ err.ok
           ELSE LET first == CHOOSE i \in Rejected(last.args) :
                                 \A j \in Rejected(last.args) : i <= j
                IN  /\ ~constructed
                    /\ self = NoObject
                    /\ err = CheckAlone(ValidationOrder[first], last.args)

C26_Witness ==
    /\ Called
    /\ last.args.scattering_angle = F(0, 1)
    /\ last.args.model_See = PyStr("XYZ")
    /\ Rejected(last.args) = {2, 10}
    /\ FailedWith("OutOfRangeValue", "checkAndSetScatteringAngle")

EverySnapshot == range1(analysis.nsnap)

\* snapshot_indices was omitted or given as 'All'
AllAsked == analysis.asked \in {None, PyStr("All")}

\* C29: when snapshot_indices is omitted or given as 'All', load_trajectory
\* hands every snapshot 1 .. number_of_snapshots() to load_snapshot; and in
\* every case each value handed to load_snapshot is an integer, never the
\* marker 'All'.
C29_AllSnapshots ==
    /\ \A i \in 1..Len(analysis.loaded) : isinstance(analysis.loaded[i], "int")
    /\ (analysis.ran /\ AllAsked) => analysis.loaded = EverySnapshot

====
